---- MODULE Spec2Model ----
(***************************************************************************)
(* Model of the trading dashboard's real-time price stream engine:         *)
(*   - useWebSocketStore (src/src/store/Store.ts): connect / disconnect,   *)
(*     createSocket, scheduleReconnect, the flush and mock intervals;      *)
(*   - useWebSocketPrices (src/src/Hooks/useWebSocketPrices.ts): every     *)
(*     attach calls connect(), every detach calls disconnect();            *)
(*   - LiveTracker (src/src/Component/LiveTracker.tsx): the component's    *)
(*     own WebSocket supervisor, mounted together with its PortfolioTable  *)
(*     child;                                                              *)
(*   - portfolioCalculations (src/src/utils/portfolioCalculations.ts):     *)
(*     the pure valuation functions.                                       *)
(* The browser side (WebSocket readyState and event tasks, the timer       *)
(* table) is modelled as far as the handlers observe it.                   *)
(***************************************************************************)
EXTENDS Integers, Sequences, FiniteSets, TLC

\* ------------------------------------------------------------------ bounds
MaxSockets   == 2   \* WebSocket objects of the store not yet collected
MaxBuffer    == 2   \* ticks waiting in the buffer
MaxAttempts  == 6   \* saturation of the reconnection-attempt counter
MaxConsumers == 2   \* mounted useWebSocketPrices consumers
MaxHoldings  == 2   \* items of a portfolio handed to the valuation functions
MaxStored    == 2   \* entries of a favorites list found in localStorage at startup
MaxFetches   == 3   \* fetchPortfolio() invocations that pass the isLoading guard

\* ------------------------------------------------------- program constants
BACKOFF_FLOOR  == 1000
BACKOFF_CAP    == 32000
FLUSH_INTERVAL == 200
MOCK_INTERVAL  == 500
RETRY_DELAY    == 3000

Symbols   == {"AAPL", "GOOGL"}
PriceVals == {100, 175}

ConnStatus == {"connected", "reconnecting", "disconnected", "connecting"}
ReadyState == {"CONNECTING", "OPEN", "CLOSING", "CLOSED"}

SocketIds == 1..MaxSockets

Min(a, b) == IF a < b THEN a ELSE b

RECURSIVE Pow2(_)
Pow2(n) == IF n = 0 THEN 1 ELSE 2 * Pow2(n - 1)

\* ---------------------------------------------------------------- messages
\* ev.data of an inbound frame: text that does not parse, or a parsed JSON
\* value with the fields the handler looks at.
Unparsable == [parses |-> FALSE, symbol |-> "", priceIsNumber |-> FALSE, price |-> 0]

JsonMsg(sym, isNumber, p) ==
    [parses |-> TRUE, symbol |-> sym, priceIsNumber |-> isNumber, price |-> p]

Malformed == {Unparsable, JsonMsg("", TRUE, 100), JsonMsg("AAPL", FALSE, 0)}

PriceMsg(sym, p) == [symbol |-> sym, price |-> p]

\* The feed the connection supervisor is exercised with: one well-formed tick
\* and the malformed frames.
FeedSymbols  == {"AAPL"}
FeedPrices   == {100}
FeedMessages == {JsonMsg(s, TRUE, p) : s \in FeedSymbols, p \in FeedPrices} \cup Malformed

\* ------------------------------------------------------------------- state
VARIABLES
    USE_MOCK,          \* build-time switch, fixed for a run
    prices,            \* state.prices: function from the known symbols
    status,            \* state.status
    ws,                \* _internals.ws: socket id, 0 for null
    buffer,            \* _internals.buffer
    backoff,           \* _internals.backoff
    reconnectTimer,    \* _internals.reconnectTimer: timer id, 0 for null
    flushTimer,        \* _internals.flushTimer
    mockTimer,         \* _internals.mockTimer
    closedExplicitly,  \* _internals.closedExplicitly
    initialized,       \* _internals.initialized
    sockets,           \* readyState of every WebSocket the store created
    failing,           \* sockets whose connection the browser must fail
    dispatching,       \* socket whose error event ran and whose close event is next, 0 if none
    timers,            \* the browser's pending timers of the store
    flushed,           \* history: <<batch>> the latest flush tick published, <<>> if it returned early
    dropped,           \* history: the latest message event enqueued nothing
    via,               \* history: status the latest handler set before its final one, "" if none
    attached,          \* mounted useWebSocketPrices consumers
    attempts,          \* history: reconnect timers fired since the last open
    openAfter,         \* history: attempts that preceded the latest open, -1 once a reconnect fired
    ltMounted,         \* LiveTracker is mounted
    ltStatus,          \* LiveTracker: status
    lastError,         \* LiveTracker: lastError, "" for null
    wsRef,             \* LiveTracker: readyState of wsRef.current, "NONE" for null
    wsRefFailing,      \* LiveTracker: the browser must fail wsRef.current's connection
    backoffRef,        \* LiveTracker: backoffRef.current
    reconnectTimerRef, \* LiveTracker: reconnectTimerRef.current, 0 for null
    closedExplicitlyRef, \* LiveTracker: closedExplicitlyRef.current
    ltTimers,          \* LiveTracker: its pending reconnect timeouts
    ltDispatching,     \* LiveTracker: error event ran, close event is next
    portfolio,         \* valuation: the PortfolioItem[] argument
    priceMap,          \* valuation: the prices argument, a function from its keys
    metrics,           \* valuation: <<result>> of calculatePortfolioMetrics, <<>> before the call
    totalValue,        \* valuation: <<result>> of calculateTotalPortfolioValue
    totalPnl,          \* valuation: <<result>> of calculateTotalPortfolioPnl
    rows,              \* valuation: <<rows>> PortfolioTable derived, <<>> before its render
    storedPortfolio,   \* usePortfolioStore: portfolio, <<>> for null, <<data>> otherwise
    error,             \* usePortfolioStore: error, "" for null
    isLoading,         \* usePortfolioStore: isLoading
    pendingRequest,    \* fetch() awaited by fetchPortfolio: 1 the first, 2 the retry, 0 none
    retryTimers,       \* pending timeouts of the retry
    requests,          \* history: fetch() calls of the latest invocation
    fetches,           \* history: invocations that passed the isLoading guard
    lastOutcome,       \* history: how the latest request settled
    storage,           \* localStorage: the item under FAVORITES_KEY
    favorites,         \* LiveTracker: the favorites Set, in insertion order
    lastToggle,        \* history: the latest toggle, <<>> before the first
    prevPricesRef,     \* PortfolioTable: prevPricesRef.current
    flashMap,          \* PortfolioTable: flashMap, function from the flagged symbols
    flashTimers,       \* PortfolioTable: pending timeouts that clear flags
    flashCleanup       \* PortfolioTable: <<t>> if the last effect run returned a cleanup for t

storeVars == <<prices, status, ws, buffer, backoff, reconnectTimer, flushTimer,
               mockTimer, closedExplicitly, initialized, sockets, failing, timers,
               flushed, dropped>>

historyVars == <<attempts, openAfter>>

trackerVars == <<ltMounted, ltStatus, lastError, wsRef, wsRefFailing, backoffRef,
                 reconnectTimerRef, closedExplicitlyRef, ltTimers, ltDispatching>>

valuationVars == <<portfolio, priceMap, metrics, totalValue, totalPnl, rows>>

fetchVars == <<storedPortfolio, error, isLoading, pendingRequest, retryTimers, requests,
               fetches, lastOutcome>>

favoriteVars == <<storage, favorites, lastToggle>>

flashVars == <<prevPricesRef, flashMap, flashTimers, flashCleanup>>

vars == <<USE_MOCK, valuationVars, fetchVars, flashVars, favoriteVars, storeVars, via, dispatching, attached, historyVars,
          trackerVars>>

\* No event task is half-way through its handlers.
Idle == dispatching = 0 /\ ~ltDispatching

\* The store as one value, so that a handler is a function from store to store.
Store == [prices |-> prices, status |-> status, ws |-> ws, buffer |-> buffer,
          backoff |-> backoff, reconnectTimer |-> reconnectTimer,
          flushTimer |-> flushTimer, mockTimer |-> mockTimer,
          closedExplicitly |-> closedExplicitly, initialized |-> initialized,
          sockets |-> sockets, failing |-> failing, timers |-> timers,
          flushed |-> flushed, dropped |-> dropped, via |-> ""]

\* A WebSocket that is CLOSED and no longer referenced delivers no event and
\* is never read again: its slot is given back.
\* held: the socket whose event task is still running, 0 if none.
Release(st, held) ==
    [st EXCEPT !.sockets = [s \in SocketIds |->
        IF st.sockets[s] = "CLOSED" /\ s \notin {st.ws, held} THEN "NONE" ELSE st.sockets[s]]]

BecomesHolding(st, held) ==
    LET r == Release(st, held) IN
    /\ prices' = r.prices
    /\ status' = r.status
    /\ ws' = r.ws
    /\ buffer' = r.buffer
    /\ backoff' = r.backoff
    /\ reconnectTimer' = r.reconnectTimer
    /\ flushTimer' = r.flushTimer
    /\ mockTimer' = r.mockTimer
    /\ closedExplicitly' = r.closedExplicitly
    /\ initialized' = r.initialized
    /\ sockets' = r.sockets
    /\ failing' = r.failing
    /\ timers' = r.timers
    /\ flushed' = r.flushed
    /\ dropped' = r.dropped
    /\ via' = r.via

Becomes(st) == BecomesHolding(st, 0)

\* ---------------------------------------------------------- browser timers
TimerIdsInUse(st) ==
    {t.id : t \in st.timers} \cup ({st.reconnectTimer, st.flushTimer, st.mockTimer} \ {0})

\* window.setTimeout / window.setInterval return an id no live handle holds.
FreshTimerId(st) ==
    CHOOSE n \in 1..(Cardinality(TimerIdsInUse(st)) + 1) :
        /\ n \notin TimerIdsInUse(st)
        /\ \A m \in 1..(n - 1) : m \in TimerIdsInUse(st)

SetTimer(st, id, kind, delay) ==
    [st EXCEPT !.timers = @ \cup {[id |-> id, kind |-> kind, delay |-> delay]}]

ClearTimer(st, id) ==
    [st EXCEPT !.timers = {t \in @ : t.id # id}]

\* ------------------------------------------------------------ store: status
SetStatus(st, s) == [st EXCEPT !.status = s]

\* ------------------------------------------------------- scheduleReconnect
\* Mutant: the backoff is doubled when the reconnection is scheduled.
ScheduleReconnectDoubles(st) ==
    LET cleared == IF st.reconnectTimer # 0 THEN ClearTimer(st, st.reconnectTimer) ELSE st
        id      == FreshTimerId([cleared EXCEPT !.reconnectTimer = 0])
    IN  SetTimer([cleared EXCEPT !.reconnectTimer = id,
                                 !.backoff = Min(BACKOFF_CAP, st.backoff * 2)],
                 id, "reconnect", st.backoff)

ScheduleReconnect(st) ==
    LET cleared == IF st.reconnectTimer # 0 THEN ClearTimer(st, st.reconnectTimer) ELSE st
        id      == FreshTimerId([cleared EXCEPT !.reconnectTimer = 0])
    IN  SetTimer([cleared EXCEPT !.reconnectTimer = id], id, "reconnect", st.backoff)

\* ------------------------------------------------------------ createSocket
\* Slots free once the handle st.ws is overwritten.
FreeSockets(st) == {s \in SocketIds : Release([st EXCEPT !.ws = 0], 0).sockets[s] = "NONE"}

FreshSocket(st) == CHOOSE s \in FreeSockets(st) : \A o \in FreeSockets(st) : s <= o

\* throws: new WebSocket(WS_URL) raised.
CreateSocket(st, throws) ==
    LET s1 == SetStatus(st, "connecting") IN
    IF throws
    THEN ScheduleReconnect(SetStatus([s1 EXCEPT !.via = "connecting"], "reconnecting"))
    ELSE LET id == FreshSocket(s1)
             r  == Release([s1 EXCEPT !.ws = 0], 0)
         IN  [r EXCEPT !.ws = id, !.sockets[id] = "CONNECTING"]

\* ---------------------------------------------------------- socket handlers
\* Mutant: the open handler forgets to reset the backoff.
OnOpenKeepsBackoff(st) == SetStatus(st, "connected")

OnOpen(st) == SetStatus([st EXCEPT !.backoff = BACKOFF_FLOOR], "connected")

\* Mutant: the type of the price is not tested.
IsValidMsgAnyPrice(data) == data.parses /\ data.symbol # ""

\* JSON.parse did not throw, data?.symbol is truthy, typeof data.price is
\* "number".
IsValidMsg(data) == data.parses /\ data.symbol # "" /\ data.priceIsNumber

\* Mutant: a valid tick is written straight into the snapshot.
OnMessagePublishes(st, data) ==
    IF IsValidMsg(data)
    THEN [st EXCEPT !.prices = [s \in (DOMAIN st.prices) \cup {data.symbol} |->
                                   IF s = data.symbol THEN data.price ELSE st.prices[s]],
                    !.dropped = FALSE]
    ELSE [st EXCEPT !.dropped = TRUE]

OnMessage(st, data) ==
    IF IsValidMsg(data)
    THEN [st EXCEPT !.buffer = Append(@, PriceMsg(data.symbol, data.price)),
                    !.dropped = FALSE]
    ELSE [st EXCEPT !.dropped = TRUE]

OnError(st) == SetStatus(st, "reconnecting")

\* Mutant: the close handler ignores the shutdown flag.
OnCloseIgnoresFlag(st) == ScheduleReconnect(SetStatus(st, "reconnecting"))

OnClose(st) ==
    IF st.closedExplicitly
    THEN SetStatus(st, "disconnected")
    ELSE ScheduleReconnect(SetStatus(st, "reconnecting"))

\* ------------------------------------------------------------ timer bodies
\* Mutant: the doubling is not capped.
ReconnectCallbackNoCap(st, throws) ==
    CreateSocket([st EXCEPT !.backoff = st.backoff * 2], throws)

\* Mutant: the callback arms the next reconnection before it creates the
\* socket.
ReconnectCallbackRearms(st, throws) ==
    CreateSocket(ScheduleReconnect(
                     [st EXCEPT !.backoff = Min(BACKOFF_CAP, st.backoff * 2)]), throws)

ReconnectCallback(st, throws) ==
    CreateSocket([st EXCEPT !.backoff = Min(BACKOFF_CAP, st.backoff * 2)], throws)

RECURSIVE ApplyBatch(_, _)
\* Mutant: a symbol already written by this batch is not overwritten.
ApplyBatchFirstWins(next, batch) ==
    LET first(s) == CHOOSE i \in DOMAIN batch :
                        /\ batch[i].symbol = s
                        /\ \A j \in 1..(i - 1) : batch[j].symbol # s
        syms     == {batch[i].symbol : i \in DOMAIN batch}
    IN  [s \in (DOMAIN next) \cup syms |->
            IF s \in syms THEN batch[first(s)].price ELSE next[s]]

ApplyBatch(next, batch) ==
    IF batch = <<>> THEN next
    ELSE LET m == Head(batch)
         IN  ApplyBatch([s \in (DOMAIN next) \cup {m.symbol} |->
                            IF s = m.symbol THEN m.price ELSE next[s]],
                        Tail(batch))

\* Mutant: no early return on an empty buffer.
FlushCallbackAlwaysPublishes(st) ==
    LET batch == st.buffer
    IN  [st EXCEPT !.buffer = <<>>,
                   !.prices = ApplyBatch(st.prices, batch),
                   !.flushed = <<batch>>]

\* Mutant: the flush takes only the oldest tick out of the buffer.
FlushCallbackDrainsOne(st) ==
    IF Len(st.buffer) = 0 THEN [st EXCEPT !.flushed = <<>>]
    ELSE LET batch == <<Head(st.buffer)>>
         IN  [st EXCEPT !.buffer = Tail(st.buffer),
                        !.prices = ApplyBatch(st.prices, batch),
                        !.flushed = <<batch>>]

\* Mutant: the snapshot is built from the batch alone.
FlushCallbackReplaces(st) ==
    IF Len(st.buffer) = 0 THEN [st EXCEPT !.flushed = <<>>]
    ELSE LET batch == st.buffer
         IN  [st EXCEPT !.buffer = <<>>,
                        !.prices = ApplyBatch(<<>>, batch),
                        !.flushed = <<batch>>]

FlushCallback(st) ==
    IF Len(st.buffer) = 0 THEN [st EXCEPT !.flushed = <<>>]
    ELSE LET batch == st.buffer
         IN  [st EXCEPT !.buffer = <<>>,
                        !.prices = ApplyBatch(st.prices, batch),
                        !.flushed = <<batch>>]

MockCallback(st, sym, price) ==
    [st EXCEPT !.buffer = Append(@, PriceMsg(sym, price))]

\* ------------------------------------------------------------------ connect
\* Mutant: the initialized guard is missing.
ConnectUnguarded(st, throws) ==
    LET s1 == [st EXCEPT !.initialized = TRUE]
        f  == FreshTimerId(s1)
        s2 == SetTimer([s1 EXCEPT !.flushTimer = f], f, "flush", FLUSH_INTERVAL)
    IN  IF USE_MOCK
        THEN LET s3 == SetStatus(s2, "connected")
                 m  == FreshTimerId(s3)
             IN  SetTimer([s3 EXCEPT !.mockTimer = m], m, "mock", MOCK_INTERVAL)
        ELSE CreateSocket(s2, throws)

\* Mutant: the synthetic branch does not return before createSocket().
ConnectMockFallsThrough(st, throws) ==
    IF st.initialized THEN st
    ELSE LET s1 == [st EXCEPT !.initialized = TRUE]
             f  == FreshTimerId(s1)
             s2 == SetTimer([s1 EXCEPT !.flushTimer = f], f, "flush", FLUSH_INTERVAL)
         IN  IF USE_MOCK
             THEN LET s3 == SetStatus(s2, "connected")
                      m  == FreshTimerId(s3)
                  IN  CreateSocket(
                          SetTimer([s3 EXCEPT !.mockTimer = m], m, "mock", MOCK_INTERVAL),
                          throws)
             ELSE CreateSocket(s2, throws)

\* Mutant: connect() starts no flush interval.
ConnectNoFlushInterval(st, throws) ==
    IF st.initialized THEN st
    ELSE LET s2 == [st EXCEPT !.initialized = TRUE]
         IN  IF USE_MOCK
             THEN LET s3 == SetStatus(s2, "connected")
                      m  == FreshTimerId(s3)
                  IN  SetTimer([s3 EXCEPT !.mockTimer = m], m, "mock", MOCK_INTERVAL)
             ELSE CreateSocket(s2, throws)

Connect(st, throws) ==
    IF st.initialized THEN st
    ELSE LET s1 == [st EXCEPT !.initialized = TRUE]
             f  == FreshTimerId(s1)
             s2 == SetTimer([s1 EXCEPT !.flushTimer = f], f, "flush", FLUSH_INTERVAL)
         IN  IF USE_MOCK
             THEN LET s3 == SetStatus(s2, "connected")
                      m  == FreshTimerId(s3)
                  IN  SetTimer([s3 EXCEPT !.mockTimer = m], m, "mock", MOCK_INTERVAL)
             ELSE CreateSocket(s2, throws)

\* --------------------------------------------------------------- disconnect
\* ws.close(): a socket still in its handshake has its connection failed.
CloseSocket(st, s) ==
    [st EXCEPT !.sockets[s] = "CLOSING",
               !.failing = IF st.sockets[s] = "CONNECTING" THEN @ \cup {s} ELSE @]

\* Mutant: the flush interval is not cleared.
DisconnectLeavesFlush(st) ==
    LET s1 == [st EXCEPT !.closedExplicitly = TRUE, !.initialized = FALSE]
        s2 == IF s1.reconnectTimer # 0
              THEN [ClearTimer(s1, s1.reconnectTimer) EXCEPT !.reconnectTimer = 0]
              ELSE s1
        s4 == IF s2.mockTimer # 0
              THEN [ClearTimer(s2, s2.mockTimer) EXCEPT !.mockTimer = 0]
              ELSE s2
        s5 == IF s4.ws # 0 /\ s4.sockets[s4.ws] \in {"OPEN", "CONNECTING"}
              THEN CloseSocket(s4, s4.ws)
              ELSE s4
    IN  SetStatus([s5 EXCEPT !.ws = 0], "disconnected")

\* Mutant: disconnect() empties the buffer.
DisconnectDropsBuffer(st) ==
    LET s1 == [st EXCEPT !.closedExplicitly = TRUE, !.initialized = FALSE, !.buffer = <<>>]
        s2 == IF s1.reconnectTimer # 0
              THEN [ClearTimer(s1, s1.reconnectTimer) EXCEPT !.reconnectTimer = 0]
              ELSE s1
        s3 == IF s2.flushTimer # 0
              THEN [ClearTimer(s2, s2.flushTimer) EXCEPT !.flushTimer = 0]
              ELSE s2
        s4 == IF s3.mockTimer # 0
              THEN [ClearTimer(s3, s3.mockTimer) EXCEPT !.mockTimer = 0]
              ELSE s3
        s5 == IF s4.ws # 0 /\ s4.sockets[s4.ws] \in {"OPEN", "CONNECTING"}
              THEN CloseSocket(s4, s4.ws)
              ELSE s4
    IN  SetStatus([s5 EXCEPT !.ws = 0], "disconnected")

Disconnect(st) ==
    LET s1 == [st EXCEPT !.closedExplicitly = TRUE, !.initialized = FALSE]
        s2 == IF s1.reconnectTimer # 0
              THEN [ClearTimer(s1, s1.reconnectTimer) EXCEPT !.reconnectTimer = 0]
              ELSE s1
        s3 == IF s2.flushTimer # 0
              THEN [ClearTimer(s2, s2.flushTimer) EXCEPT !.flushTimer = 0]
              ELSE s2
        s4 == IF s3.mockTimer # 0
              THEN [ClearTimer(s3, s3.mockTimer) EXCEPT !.mockTimer = 0]
              ELSE s3
        s5 == IF s4.ws # 0 /\ s4.sockets[s4.ws] \in {"OPEN", "CONNECTING"}
              THEN CloseSocket(s4, s4.ws)
              ELSE s4
    IN  SetStatus([s5 EXCEPT !.ws = 0], "disconnected")


\* ------------------------------------------------------ useWebSocketPrices
\* The effect of the hook: connect() on mount, disconnect() on cleanup.
UseEffectMount(st, throws) == Connect(st, throws)

\* Mutant: only the last consumer to detach disconnects.
UseEffectCleanupLastOnly(st) == IF attached = 1 THEN Disconnect(st) ELSE st

UseEffectCleanup(st) == Disconnect(st)

\* ------------------------------------------------------------- LiveTracker
\* The component instance as one value.
Tracker == [status |-> ltStatus, lastError |-> lastError, ws |-> wsRef,
            failing |-> wsRefFailing, backoff |-> backoffRef,
            reconnectTimer |-> reconnectTimerRef,
            closedExplicitly |-> closedExplicitlyRef, timers |-> ltTimers]

\* useState / useRef initial values of a new instance.
TrackerInitial == [status |-> "connecting", lastError |-> "", ws |-> "NONE",
                   failing |-> FALSE, backoff |-> BACKOFF_FLOOR, reconnectTimer |-> 0,
                   closedExplicitly |-> FALSE, timers |-> {}]

TrackerBecomes(lt) ==
    /\ ltStatus' = lt.status
    /\ lastError' = lt.lastError
    /\ wsRef' = lt.ws
    /\ wsRefFailing' = lt.failing
    /\ backoffRef' = lt.backoff
    /\ reconnectTimerRef' = lt.reconnectTimer
    /\ closedExplicitlyRef' = lt.closedExplicitly
    /\ ltTimers' = lt.timers

LtFreshTimerId(lt) ==
    CHOOSE n \in 1..(Cardinality(lt.timers) + 1) :
        /\ n \notin {t.id : t \in lt.timers}
        /\ \A m \in 1..(n - 1) : m \in {t.id : t \in lt.timers}

LtScheduleReconnect(lt) ==
    LET cleared == IF lt.reconnectTimer # 0
                   THEN [lt EXCEPT !.timers = {t \in @ : t.id # lt.reconnectTimer}]
                   ELSE lt
        id      == LtFreshTimerId(cleared)
    IN  [cleared EXCEPT !.reconnectTimer = id,
                        !.timers = @ \cup {[id |-> id, delay |-> lt.backoff]}]

LtCreateSocket(lt, throws) ==
    LET s1 == [lt EXCEPT !.lastError = "", !.status = "connecting"] IN
    IF throws
    THEN LtScheduleReconnect([s1 EXCEPT !.lastError = "Failed to construct 'WebSocket'",
                                        !.status = "reconnecting"])
    ELSE [s1 EXCEPT !.ws = "CONNECTING", !.failing = FALSE]

LtOnOpen(lt) == [lt EXCEPT !.backoff = BACKOFF_FLOOR, !.status = "connected"]

LtOnError(lt) == [lt EXCEPT !.lastError = "WebSocket error"]

LtOnClose(lt) ==
    IF lt.closedExplicitly
    THEN [lt EXCEPT !.status = "disconnected"]
    ELSE LtScheduleReconnect([lt EXCEPT !.status = "reconnecting"])

LtReconnectCallback(lt, throws) ==
    LtCreateSocket([lt EXCEPT !.backoff = Min(BACKOFF_CAP, lt.backoff * 2)], throws)

\* The mount effect: the simulator when USE_MOCK, else the first socket.
LtMountEffect(lt, throws) ==
    IF USE_MOCK THEN [lt EXCEPT !.status = "connected"]
    ELSE LtCreateSocket(lt, throws)

\* The cleanup the mount effect returned (none closes a socket when USE_MOCK).
LtCleanup(lt) ==
    IF USE_MOCK THEN lt
    ELSE LET s1 == [lt EXCEPT !.closedExplicitly = TRUE]
             s2 == IF s1.reconnectTimer # 0
                   THEN [s1 EXCEPT !.timers = {t \in @ : t.id # s1.reconnectTimer}]
                   ELSE s1
         IN  IF s2.ws \in {"OPEN", "CONNECTING"}
             THEN [s2 EXCEPT !.ws = "CLOSING", !.failing = (s2.ws = "CONNECTING")]
             ELSE s2

\* ---------------------------------------------------- LiveTracker favorites
\* What localStorage can hold under FAVORITES_KEY: nothing, the empty string,
\* text that is not JSON, or the JSON text of null, of a number, of an object,
\* of a string (items: its characters) or of an array of strings (items: its
\* elements).
Range(seq) == {seq[i] : i \in DOMAIN seq}

Missing == [kind |-> "missing", items |-> <<>>]

StoredLists == UNION {[1..n -> Symbols] : n \in 0..MaxStored}

StoredValues ==
    {[kind |-> k, items |-> <<>>] :
        k \in {"missing", "empty", "text", "json-null", "json-number", "json-object"}}
    \cup {[kind |-> "json-string", items |-> <<"A", "A", "P", "L">>],
          [kind |-> "json-string", items |-> <<>>]}
    \cup {[kind |-> "json-array", items |-> l] : l \in StoredLists}

\* localStorage.getItem(FAVORITES_KEY): null for a missing item.
getItem(st) == st

\* `saved ? ... : ...`: null and "" are falsy.
Truthy(saved) == saved.kind \notin {"missing", "empty"}

\* JSON.parse(saved) throws a SyntaxError.
ParseThrows(saved) == saved.kind = "text"

\* new Set(value) throws a TypeError: the value is neither nullish nor iterable.
NewSetThrows(value) == value.kind \in {"json-number", "json-object"}

\* new Set(iterable): the elements in order of first occurrence.
RECURSIVE NewSet(_)
NewSet(items) ==
    IF items = <<>> THEN <<>>
    ELSE LET front == NewSet(SubSeq(items, 1, Len(items) - 1))
             last  == items[Len(items)]
         IN IF last \in Range(front) THEN front ELSE Append(front, last)

loadFavorites(saved) ==
    IF ~Truthy(saved) THEN <<>>
    ELSE IF ParseThrows(saved) \/ NewSetThrows(saved) THEN <<>>
    ELSE IF saved.kind = "json-null" THEN <<>>
    ELSE NewSet(saved.items)

\* JSON.stringify([...favorites]), stored under FAVORITES_KEY.
saveFavorites(favs) == [kind |-> "json-array", items |-> favs]

\* next.delete(symbol)
SetDelete(favs, symbol) == SelectSeq(favs, LAMBDA s : s # symbol)

\* The updater of toggleFavorite: the next Set.
toggleFavorite(prev, symbol) ==
    IF symbol \in Range(prev) THEN SetDelete(prev, symbol) ELSE Append(prev, symbol)

\* ------------------------------------------------------------------ initial
\* The engine before any consumer has mounted.
InitEngine ==
    /\ USE_MOCK \in BOOLEAN
    /\ prices = <<>>
    /\ status = "connecting"
    /\ ws = 0
    /\ buffer = <<>>
    /\ backoff = BACKOFF_FLOOR
    /\ reconnectTimer = 0
    /\ flushTimer = 0
    /\ mockTimer = 0
    /\ closedExplicitly = FALSE
    /\ initialized = FALSE
    /\ sockets = [s \in SocketIds |-> "NONE"]
    /\ failing = {}
    /\ dispatching = 0
    /\ timers = {}
    /\ flushed = <<>>
    /\ dropped = FALSE
    /\ via = ""
    /\ attached = 0
    /\ attempts = 0
    /\ openAfter = -1
    /\ ltMounted = FALSE
    /\ ltStatus = TrackerInitial.status
    /\ lastError = TrackerInitial.lastError
    /\ wsRef = TrackerInitial.ws
    /\ wsRefFailing = TrackerInitial.failing
    /\ backoffRef = TrackerInitial.backoff
    /\ reconnectTimerRef = TrackerInitial.reconnectTimer
    /\ closedExplicitlyRef = TrackerInitial.closedExplicitly
    /\ ltTimers = TrackerInitial.timers
    /\ ltDispatching = FALSE
    /\ storedPortfolio = <<>>
    /\ error = ""
    /\ isLoading = FALSE
    /\ pendingRequest = 0
    /\ retryTimers = {}
    /\ requests = 0
    /\ fetches = 0
    /\ lastOutcome = "none"
    /\ favorites = <<>>
    /\ lastToggle = <<>>
    /\ prevPricesRef = <<>>
    /\ flashMap = <<>>
    /\ flashTimers = {}
    /\ flashCleanup = <<>>

Init ==
    /\ InitEngine
    /\ portfolio = <<>>
    /\ priceMap = <<>>
    /\ metrics = <<>>
    /\ totalValue = <<>>
    /\ totalPnl = <<>>
    /\ rows = <<>>
    /\ storage = Missing

\* ------------------------------------------------------------ store actions
\* A useWebSocketPrices consumer mounts: its effect calls connect().
Attach ==
    /\ Idle
    /\ attached < MaxConsumers
    /\ attached' = attached + 1
    /\ \E throws \in BOOLEAN :
          /\ initialized \/ USE_MOCK \/ throws \/ FreeSockets(Store) # {}
          /\ Becomes(UseEffectMount(Store, throws))
    /\ UNCHANGED <<USE_MOCK, valuationVars, fetchVars, flashVars, favoriteVars, dispatching, historyVars, trackerVars>>

\* A useWebSocketPrices consumer unmounts: its cleanup calls disconnect().
Detach ==
    /\ Idle
    /\ attached > 0
    /\ attached' = attached - 1
    /\ Becomes(UseEffectCleanup(Store))
    /\ UNCHANGED <<USE_MOCK, valuationVars, fetchVars, flashVars, favoriteVars, dispatching, historyVars, trackerVars>>

\* The handshake of socket s succeeded: readyState OPEN, open event.
SocketOpen(s) ==
    /\ Idle
    /\ sockets[s] = "CONNECTING"
    /\ Becomes(OnOpen([Store EXCEPT !.sockets[s] = "OPEN"]))
    /\ attempts' = 0
    /\ openAfter' = attempts
    /\ UNCHANGED <<USE_MOCK, valuationVars, fetchVars, flashVars, favoriteVars, dispatching, attached, trackerVars>>

\* A frame arrived on the open socket s: message event.
SocketMessage(s, data) ==
    /\ Idle
    /\ sockets[s] = "OPEN"
    /\ IsValidMsg(data) => Len(buffer) < MaxBuffer
    /\ Becomes(OnMessage(Store, data))
    /\ UNCHANGED <<USE_MOCK, valuationVars, fetchVars, flashVars, favoriteVars, dispatching, attached, historyVars, trackerVars>>

\* The connection of socket s failed: readyState CLOSED, error event; the
\* close event follows in the same task.
SocketError(s) ==
    /\ Idle
    /\ \/ sockets[s] \in {"CONNECTING", "OPEN"}
       \/ sockets[s] = "CLOSING" /\ s \in failing
    /\ BecomesHolding(OnError([Store EXCEPT !.sockets[s] = "CLOSED", !.failing = @ \ {s}]), s)
    /\ dispatching' = s
    /\ UNCHANGED <<USE_MOCK, valuationVars, fetchVars, flashVars, favoriteVars, attached, historyVars, trackerVars>>

\* close event of socket s: after its error event, or after a clean closing
\* handshake.
SocketClose(s) ==
    /\ \/ dispatching = s
       \/ Idle /\ sockets[s] \in {"OPEN", "CLOSING"} /\ s \notin failing
    /\ Becomes(OnClose([Store EXCEPT !.sockets[s] = "CLOSED"]))
    /\ dispatching' = 0
    /\ UNCHANGED <<USE_MOCK, valuationVars, fetchVars, flashVars, favoriteVars, attached, historyVars, trackerVars>>

\* The reconnect timeout t elapsed.
ReconnectTimerFires(t) ==
    /\ Idle
    /\ t.kind = "reconnect"
    /\ \E throws \in BOOLEAN :
          /\ throws \/ FreeSockets(Store) # {}
          /\ Becomes(ReconnectCallback(ClearTimer(Store, t.id), throws))
    /\ attempts' = Min(attempts + 1, MaxAttempts)
    /\ openAfter' = -1
    /\ UNCHANGED <<USE_MOCK, valuationVars, fetchVars, flashVars, favoriteVars, dispatching, attached, trackerVars>>

\* The 200 ms flush interval ticked.
FlushTimerFires(t) ==
    /\ Idle
    /\ t.kind = "flush"
    /\ Becomes(FlushCallback(Store))
    /\ UNCHANGED <<USE_MOCK, valuationVars, fetchVars, flashVars, favoriteVars, dispatching, attached, historyVars, trackerVars>>

\* The 500 ms mock interval ticked.
MockTimerFires(t, sym, p) ==
    /\ Idle
    /\ t.kind = "mock"
    /\ Len(buffer) < MaxBuffer
    /\ Becomes(MockCallback(Store, sym, p))
    /\ UNCHANGED <<USE_MOCK, valuationVars, fetchVars, flashVars, favoriteVars, dispatching, attached, historyVars, trackerVars>>

\* The shared store with its consumers, the sockets it creates and its timers.
Next ==
    \/ Attach
    \/ Detach
    \/ \E s \in SocketIds : SocketOpen(s)
    \/ \E s \in SocketIds, data \in FeedMessages : SocketMessage(s, data)
    \/ \E s \in SocketIds : SocketError(s)
    \/ \E s \in SocketIds : SocketClose(s)
    \/ \E t \in timers : ReconnectTimerFires(t)
    \/ \E t \in timers : FlushTimerFires(t)
    \/ \E t \in timers, sym \in FeedSymbols, p \in FeedPrices : MockTimerFires(t, sym, p)

Spec == Init /\ [][Next]_vars

TypeOK ==
    /\ status \in ConnStatus
    /\ ltStatus \in ConnStatus
    /\ ws \in SocketIds \cup {0}
    /\ backoff \in Nat
    /\ Len(buffer) <= MaxBuffer
    /\ \A s \in SocketIds : sockets[s] \in ReadyState \cup {"NONE"}

\* ------------------------------------------------------ application actions
\* LiveTracker mounts with its PortfolioTable child: the child's hook effect
\* calls connect(), then LiveTracker's mount effect runs. Both construct
\* their WebSocket from the same WS_URL.
MountLiveTracker ==
    /\ Idle
    /\ ~ltMounted
    /\ attached = 0
    /\ ltMounted' = TRUE
    /\ attached' = 1
    /\ \E throws \in BOOLEAN :
          /\ initialized \/ USE_MOCK \/ throws \/ FreeSockets(Store) # {}
          /\ Becomes(UseEffectMount(Store, throws))
          /\ TrackerBecomes(LtMountEffect(TrackerInitial, throws))
    /\ favorites' = loadFavorites(getItem(storage))
    /\ lastToggle' = <<>>
    /\ UNCHANGED <<USE_MOCK, valuationVars, fetchVars, flashVars, storage, dispatching, historyVars, ltDispatching>>

\* LiveTracker unmounts: its cleanup runs, and its child's cleanup calls
\* disconnect().
UnmountLiveTracker ==
    /\ Idle
    /\ ltMounted
    /\ ltMounted' = FALSE
    /\ attached' = 0
    /\ TrackerBecomes(LtCleanup(Tracker))
    /\ Becomes(UseEffectCleanup(Store))
    /\ UNCHANGED <<USE_MOCK, valuationVars, fetchVars, flashVars, favoriteVars, dispatching, historyVars, ltDispatching>>

\* LiveTracker's socket finished its handshake.
LtSocketOpen ==
    /\ Idle
    /\ ltMounted
    /\ wsRef = "CONNECTING"
    /\ TrackerBecomes(LtOnOpen([Tracker EXCEPT !.ws = "OPEN"]))
    /\ UNCHANGED <<USE_MOCK, valuationVars, fetchVars, flashVars, favoriteVars, storeVars, via, dispatching, attached, historyVars,
                   ltMounted, ltDispatching>>

\* LiveTracker's connection failed: error event, close event next.
LtSocketError ==
    /\ Idle
    /\ ltMounted
    /\ wsRef \in {"CONNECTING", "OPEN"}
    /\ TrackerBecomes(LtOnError([Tracker EXCEPT !.ws = "CLOSED"]))
    /\ ltDispatching' = TRUE
    /\ UNCHANGED <<USE_MOCK, valuationVars, fetchVars, flashVars, favoriteVars, storeVars, via, dispatching, attached, historyVars, ltMounted>>

\* close event of LiveTracker's socket: after its error event, or after a
\* clean close by the server.
LtSocketClose ==
    /\ ltMounted
    /\ \/ ltDispatching
       \/ Idle /\ wsRef = "OPEN"
    /\ TrackerBecomes(LtOnClose([Tracker EXCEPT !.ws = "CLOSED"]))
    /\ ltDispatching' = FALSE
    /\ UNCHANGED <<USE_MOCK, valuationVars, fetchVars, flashVars, favoriteVars, storeVars, via, dispatching, attached, historyVars, ltMounted>>

\* LiveTracker's reconnect timeout t elapsed.
LtReconnectTimerFires(t) ==
    /\ Idle
    /\ ltMounted
    /\ \E throws \in BOOLEAN :
          TrackerBecomes(LtReconnectCallback(
              [Tracker EXCEPT !.timers = @ \ {t}], throws))
    /\ UNCHANGED <<USE_MOCK, valuationVars, fetchVars, flashVars, favoriteVars, storeVars, via, dispatching, attached, historyVars,
                   ltMounted, ltDispatching>>

\* The application: LiveTracker with its PortfolioTable child, both
\* connection supervisors and the store's feed.
NextApp ==
    \/ MountLiveTracker
    \/ UnmountLiveTracker
    \/ LtSocketOpen
    \/ LtSocketError
    \/ LtSocketClose
    \/ \E t \in ltTimers : LtReconnectTimerFires(t)
    \/ \E s \in SocketIds : SocketOpen(s)
    \/ \E s \in SocketIds, data \in FeedMessages : SocketMessage(s, data)
    \/ \E s \in SocketIds : SocketError(s)
    \/ \E s \in SocketIds : SocketClose(s)
    \/ \E t \in timers : ReconnectTimerFires(t)
    \/ \E t \in timers : FlushTimerFires(t)
    \/ \E t \in timers, sym \in FeedSymbols, p \in FeedPrices : MockTimerFires(t, sym, p)

SpecApp == Init /\ [][NextApp]_vars

\* ------------------------------------------------------------ tick pipeline
\* The store fed by the synthetic source, over every symbol and price: the
\* mock interval pushes, the flush interval drains, consumers come and go.
InitTicks == Init /\ USE_MOCK

NextTicks ==
    \/ Attach
    \/ Detach
    \/ \E t \in timers : FlushTimerFires(t)
    \/ \E t \in timers, sym \in Symbols, p \in PriceVals : MockTimerFires(t, sym, p)

SpecTicks == InitTicks /\ [][NextTicks]_vars

\* ------------------------------------------------------------------ cadence
\* window.setInterval: while the flush interval is not cleared the browser
\* runs its callback again and again, between the other tasks.  An event
\* task that is half-way through its handlers delays the callback but cannot
\* hold it off for ever, hence strong fairness.
FlushTicks == \E t \in timers : FlushTimerFires(t)

\* The close event of a failed connection is fired by the task that fired
\* its error event: it cannot be left out.
CloseFollowsError == \E s \in SocketIds : dispatching = s /\ SocketClose(s)

\* The live feed sending ticks of one symbol at changing prices, observed
\* while no backoff delay elapses: consumers come and go, connections open,
\* fail and close, the flush interval ticks.
LiveFrames == {JsonMsg("AAPL", TRUE, p) : p \in PriceVals}

InitLive == Init /\ ~USE_MOCK

NextLive ==
    \/ Attach
    \/ Detach
    \/ \E s \in SocketIds : SocketOpen(s)
    \/ \E s \in SocketIds, data \in LiveFrames : SocketMessage(s, data)
    \/ \E s \in SocketIds : SocketError(s)
    \/ \E s \in SocketIds : SocketClose(s)
    \/ \E t \in timers : FlushTimerFires(t)

SpecLive ==
    InitLive /\ [][NextLive]_vars /\ SF_vars(FlushTicks) /\ WF_vars(CloseFollowsError)

\* ---------------------------------------------------------------- valuation
\* portfolioCalculations.ts: pure functions of a portfolio and a price map.
\* A `number | undefined` is <<>> for undefined and <<x>> for the number x.
\* Arithmetic is exact: a quotient is a fraction in lowest terms with a
\* denominator >= 0, the denominator 0 standing for what a division by zero
\* yields (Infinity, -Infinity, NaN by the sign of the numerator).
Undefined == <<>>

Quantities == {0, 10}
AvgCosts   == {0, 100, 150}

PortfolioItems == [symbol : Symbols, quantity : Quantities, avgCost : AvgCosts]

Portfolios == UNION {[1..n -> PortfolioItems] : n \in 0..MaxHoldings}

PriceMaps == UNION {[S -> PriceVals] : S \in SUBSET Symbols}

\* prices[symbol]
PriceOf(pm, sym) == IF sym \in DOMAIN pm THEN <<pm[sym]>> ELSE Undefined

Abs(n) == IF n < 0 THEN -n ELSE n

RECURSIVE Gcd(_, _)
Gcd(a, b) == IF b = 0 THEN a ELSE Gcd(b, a % b)

Sign(n) == IF n > 0 THEN 1 ELSE IF n < 0 THEN -1 ELSE 0

\* n / d
Quotient(n, d) ==
    IF d = 0 THEN [num |-> Sign(n), den |-> 0]
    ELSE LET g == Gcd(Abs(n), Abs(d))
         IN  [num |-> (Sign(d) * n) \div g, den |-> Abs(d) \div g]

\* Mutant: a missing price counts as a value of 0.
calculateTotalValueOrZero(quantity, currentPrice) ==
    IF currentPrice = Undefined THEN <<0>>
    ELSE <<quantity * currentPrice[1]>>

\* Mutant: the quantity is added instead of multiplied.
calculateTotalValueAdds(quantity, currentPrice) ==
    IF currentPrice = Undefined THEN Undefined
    ELSE <<quantity + currentPrice[1]>>

calculateTotalValue(quantity, currentPrice) ==
    IF currentPrice = Undefined THEN Undefined
    ELSE <<quantity * currentPrice[1]>>

\* Mutant: the average cost is not subtracted.
calculateDailyPnlNoCost(quantity, avgCost, currentPrice) ==
    IF currentPrice = Undefined THEN Undefined
    ELSE <<quantity * currentPrice[1]>>

calculateDailyPnl(quantity, avgCost, currentPrice) ==
    IF currentPrice = Undefined THEN Undefined
    ELSE <<quantity * (currentPrice[1] - avgCost)>>

\* Mutant: the average cost is not tested before the division.
calculateDailyPnlPercentUnguarded(avgCost, currentPrice) ==
    IF currentPrice = Undefined THEN Undefined
    ELSE <<Quotient((currentPrice[1] - avgCost) * 100, avgCost)>>

calculateDailyPnlPercent(avgCost, currentPrice) ==
    IF currentPrice = Undefined THEN Undefined
    ELSE IF avgCost = 0 THEN Undefined
    ELSE <<Quotient((currentPrice[1] - avgCost) * 100, avgCost)>>

\* Mutant: quantity and average cost are handed to calculateDailyPnl in the
\* wrong order.
calculatePortfolioItemMetricsSwapped(item, currentPrice) ==
    [symbol          |-> item.symbol,
     quantity        |-> item.quantity,
     avgCost         |-> item.avgCost,
     currentPrice    |-> currentPrice,
     totalValue      |-> calculateTotalValue(item.quantity, currentPrice),
     dailyPnl        |-> calculateDailyPnl(item.avgCost, item.quantity, currentPrice),
     dailyPnlPercent |-> calculateDailyPnlPercent(item.avgCost, currentPrice)]

calculatePortfolioItemMetrics(item, currentPrice) ==
    [symbol          |-> item.symbol,
     quantity        |-> item.quantity,
     avgCost         |-> item.avgCost,
     currentPrice    |-> currentPrice,
     totalValue      |-> calculateTotalValue(item.quantity, currentPrice),
     dailyPnl        |-> calculateDailyPnl(item.quantity, item.avgCost, currentPrice),
     dailyPnlPercent |-> calculateDailyPnlPercent(item.avgCost, currentPrice)]

\* Mutant: the result lists the items in reverse order.
calculatePortfolioMetricsReversed(pf, pm) ==
    [i \in DOMAIN pf |->
        calculatePortfolioItemMetrics(pf[Len(pf) + 1 - i],
                                      PriceOf(pm, pf[Len(pf) + 1 - i].symbol))]

calculatePortfolioMetrics(pf, pm) ==
    [i \in DOMAIN pf |-> calculatePortfolioItemMetrics(pf[i], PriceOf(pm, pf[i].symbol))]

\* portfolio.reduce((total, item) => ..., 0) of calculateTotalPortfolioValue.
RECURSIVE ReduceValue(_, _, _)
ReduceValue(pf, pm, total) ==
    IF pf = <<>> THEN total
    ELSE LET item  == Head(pf)
             price == PriceOf(pm, item.symbol)
         IN  ReduceValue(Tail(pf), pm,
                 IF price = Undefined THEN total ELSE total + item.quantity * price[1])

\* Mutant: the fold ends at the first item without a price.
calculateTotalPortfolioValueStopsAtMissing(pf, pm) ==
    LET missing == {i \in DOMAIN pf : pf[i].symbol \notin DOMAIN pm}
        n       == IF missing = {} THEN Len(pf)
                   ELSE (CHOOSE i \in missing : \A j \in missing : i <= j) - 1
    IN  ReduceValue(SubSeq(pf, 1, n), pm, 0)

calculateTotalPortfolioValue(pf, pm) == ReduceValue(pf, pm, 0)

\* portfolio.reduce((total, item) => ..., 0) of calculateTotalPortfolioPnl.
RECURSIVE ReducePnl(_, _, _)
ReducePnl(pf, pm, total) ==
    IF pf = <<>> THEN total
    ELSE LET item  == Head(pf)
             price == PriceOf(pm, item.symbol)
         IN  ReducePnl(Tail(pf), pm,
                 IF price = Undefined THEN total
                 ELSE total + item.quantity * (price[1] - item.avgCost))

\* Mutant: an item without a price counts with a price of 0.
calculateTotalPortfolioPnlZeroPriced(pf, pm) ==
    ReducePnl(pf, [s \in Symbols |-> IF s \in DOMAIN pm THEN pm[s] ELSE 0], 0)

calculateTotalPortfolioPnl(pf, pm) == ReducePnl(pf, pm, 0)

\* The rows useMemo of PortfolioTable, for a portfolio that is loaded.
TableRows(pf, pm) ==
    [i \in DOMAIN pf |->
        LET p  == pf[i]
            cp == PriceOf(pm, p.symbol)
        IN  [symbol          |-> p.symbol,
             quantity        |-> p.quantity,
             avgCost         |-> p.avgCost,
             currentPrice    |-> cp,
             totalValue      |-> IF cp # Undefined THEN <<cp[1] * p.quantity>> ELSE Undefined,
             dailyPnl        |-> IF cp # Undefined
                                 THEN <<p.quantity * (cp[1] - p.avgCost)>> ELSE Undefined,
             dailyPnlPercent |-> IF cp # Undefined
                                 THEN <<Quotient((cp[1] - p.avgCost) * 100, p.avgCost)>>
                                 ELSE Undefined]]

\* A caller hands a portfolio and a price map to the valuation functions.
InitValuation ==
    /\ InitEngine
    /\ portfolio \in Portfolios
    /\ priceMap \in PriceMaps
    /\ metrics = <<>>
    /\ totalValue = <<>>
    /\ totalPnl = <<>>
    /\ rows = <<>>
    /\ storage = Missing

engineVars == <<USE_MOCK, fetchVars, favoriteVars, flashVars, storeVars, via, dispatching, attached, historyVars, trackerVars>>

CallPortfolioMetrics ==
    /\ metrics = <<>>
    /\ metrics' = <<calculatePortfolioMetrics(portfolio, priceMap)>>
    /\ UNCHANGED <<portfolio, priceMap, totalValue, totalPnl, rows, engineVars>>

CallTotalPortfolioValue ==
    /\ totalValue = <<>>
    /\ totalValue' = <<calculateTotalPortfolioValue(portfolio, priceMap)>>
    /\ UNCHANGED <<portfolio, priceMap, metrics, totalPnl, rows, engineVars>>

CallTotalPortfolioPnl ==
    /\ totalPnl = <<>>
    /\ totalPnl' = <<calculateTotalPortfolioPnl(portfolio, priceMap)>>
    /\ UNCHANGED <<portfolio, priceMap, metrics, totalValue, rows, engineVars>>

\* PortfolioTable renders with the portfolio and the price snapshot.
RenderRows ==
    /\ rows = <<>>
    /\ rows' = <<TableRows(portfolio, priceMap)>>
    /\ UNCHANGED <<portfolio, priceMap, metrics, totalValue, totalPnl, engineVars>>

NextValuation ==
    \/ CallPortfolioMetrics
    \/ CallTotalPortfolioValue
    \/ CallTotalPortfolioPnl
    \/ RenderRows

SpecValuation == InitValuation /\ [][NextValuation]_vars

\* ------------------------------------------------------- usePortfolioStore
\* Bodies the holdings endpoint answers with, and the messages of the errors a
\* request can end in: fetch() rejecting, and "HTTP <status>" for !res.ok.
FetchedData ==
    {<<>>,
     <<[symbol |-> "AAPL", quantity |-> 10, avgCost |-> 150]>>,
     <<[symbol |-> "AAPL", quantity |-> 10, avgCost |-> 150],
       [symbol |-> "GOOGL", quantity |-> 10, avgCost |-> 100]>>}

FetchErrors == {"Failed to fetch", "HTTP 404", "HTTP 500"}

Outcomes == [ok : {TRUE}, data : FetchedData] \cup [ok : {FALSE}, message : FetchErrors]

PortfolioState ==
    [portfolio |-> storedPortfolio, error |-> error, isLoading |-> isLoading,
     pendingRequest |-> pendingRequest, retryTimers |-> retryTimers,
     requests |-> requests, fetches |-> fetches, lastOutcome |-> lastOutcome]

PortfolioBecomes(ps) ==
    /\ storedPortfolio' = ps.portfolio
    /\ error' = ps.error
    /\ isLoading' = ps.isLoading
    /\ pendingRequest' = ps.pendingRequest
    /\ retryTimers' = ps.retryTimers
    /\ requests' = ps.requests
    /\ fetches' = ps.fetches
    /\ lastOutcome' = ps.lastOutcome

\* Mutant: no isLoading guard.
fetchPortfolioUnguarded(ps) ==
    [ps EXCEPT !.isLoading = TRUE, !.error = "", !.pendingRequest = 1,
               !.requests = 1, !.fetches = @ + 1, !.lastOutcome = "none"]

\* fetchPortfolio() up to its first await: the guard, the set, the fetch().
fetchPortfolio(ps) ==
    IF ps.isLoading THEN ps
    ELSE [ps EXCEPT !.isLoading = TRUE, !.error = "", !.pendingRequest = 1,
                    !.requests = 1, !.fetches = @ + 1, !.lastOutcome = "none"]

\* The first request settles: the rest of the try block, or the catch block.
FirstSettledRetriesAtOnce(ps, r) ==
    IF r.ok
    THEN [ps EXCEPT !.portfolio = <<r.data>>, !.isLoading = FALSE,
                    !.pendingRequest = 0, !.lastOutcome = "ok"]
    ELSE [ps EXCEPT !.pendingRequest = 2, !.requests = @ + 1, !.lastOutcome = "failed"]

\* Mutant: the catch block arms no retry.
FirstSettledGivesUp(ps, r) ==
    IF r.ok
    THEN [ps EXCEPT !.portfolio = <<r.data>>, !.isLoading = FALSE,
                    !.pendingRequest = 0, !.lastOutcome = "ok"]
    ELSE [ps EXCEPT !.pendingRequest = 0, !.lastOutcome = "failed"]

FirstSettled(ps, r) ==
    IF r.ok
    THEN [ps EXCEPT !.portfolio = <<r.data>>, !.isLoading = FALSE,
                    !.pendingRequest = 0, !.lastOutcome = "ok"]
    ELSE [ps EXCEPT !.pendingRequest = 0, !.lastOutcome = "failed",
                    !.retryTimers = @ \cup {[delay |-> RETRY_DELAY]}]

\* The timeout callback up to its await: the second fetch().
RetryCallback(ps, t) ==
    [ps EXCEPT !.retryTimers = @ \ {t}, !.pendingRequest = 2, !.requests = @ + 1]

\* The second request settles: the rest of the inner try, or the inner catch.
RetrySettledRetriesAgain(ps, r) ==
    IF r.ok
    THEN [ps EXCEPT !.portfolio = <<r.data>>, !.isLoading = FALSE, !.error = "",
                    !.pendingRequest = 0, !.lastOutcome = "ok"]
    ELSE [ps EXCEPT !.pendingRequest = 0, !.lastOutcome = "failed",
                    !.retryTimers = @ \cup {[delay |-> RETRY_DELAY]}]

RetrySettled(ps, r) ==
    IF r.ok
    THEN [ps EXCEPT !.portfolio = <<r.data>>, !.isLoading = FALSE, !.error = "",
                    !.pendingRequest = 0, !.lastOutcome = "ok"]
    ELSE [ps EXCEPT !.error = r.message, !.isLoading = FALSE,
                    !.pendingRequest = 0, !.lastOutcome = "failed"]

fetchRest == <<USE_MOCK, valuationVars, favoriteVars, flashVars, storeVars, via, dispatching, attached, historyVars,
               trackerVars>>

\* PortfolioTable's mount effect, or any later caller.
FetchPortfolio ==
    /\ isLoading \/ fetches < MaxFetches
    /\ PortfolioBecomes(fetchPortfolio(PortfolioState))
    /\ UNCHANGED fetchRest

FirstRequestSettles ==
    /\ pendingRequest = 1
    /\ \E r \in Outcomes : PortfolioBecomes(FirstSettled(PortfolioState, r))
    /\ UNCHANGED fetchRest

RetryTimerFires ==
    /\ \E t \in retryTimers : PortfolioBecomes(RetryCallback(PortfolioState, t))
    /\ UNCHANGED fetchRest

RetryRequestSettles ==
    /\ pendingRequest = 2
    /\ \E r \in Outcomes : PortfolioBecomes(RetrySettled(PortfolioState, r))
    /\ UNCHANGED fetchRest

NextFetch ==
    \/ FetchPortfolio
    \/ FirstRequestSettles
    \/ RetryTimerFires
    \/ RetryRequestSettles

SpecFetch == Init /\ [][NextFetch]_vars

\* Every request eventually resolves or rejects, and an armed timeout fires.
SpecFetchFair ==
    /\ Init
    /\ [][NextFetch]_vars
    /\ WF_vars(FirstRequestSettles)
    /\ WF_vars(RetryTimerFires)
    /\ WF_vars(RetryRequestSettles)

\* ------------------------------------------------------ favorites behaviour
\* The browser holds anything under FAVORITES_KEY when the page starts.
InitFavorites ==
    /\ InitEngine
    /\ portfolio = <<>>
    /\ priceMap = <<>>
    /\ metrics = <<>>
    /\ totalValue = <<>>
    /\ totalPnl = <<>>
    /\ rows = <<>>
    /\ storage \in StoredValues

\* A click on the star or the name of a symbol's card.
ToggleFavorite(symbol) ==
    /\ Idle
    /\ ltMounted
    /\ favorites' = toggleFavorite(favorites, symbol)
    /\ storage' = saveFavorites(favorites')
    /\ lastToggle' = <<[symbol |-> symbol, before |-> Range(favorites)]>>
    /\ UNCHANGED <<USE_MOCK, valuationVars, fetchVars, flashVars, storeVars, via, dispatching, attached,
                   historyVars, trackerVars>>

NextFavorites ==
    \/ MountLiveTracker
    \/ UnmountLiveTracker
    \/ \E symbol \in Symbols : ToggleFavorite(symbol)

SpecFavorites == InitFavorites /\ [][NextFavorites]_vars

\* ---------------------------------------------------- PortfolioTable flash
\* The table instance as one value.
Flash == [prev |-> prevPricesRef, flashMap |-> flashMap, timers |-> flashTimers,
          cleanup |-> flashCleanup]

FlashBecomes(fl) ==
    /\ prevPricesRef' = fl.prev
    /\ flashMap' = fl.flashMap
    /\ flashTimers' = fl.timers
    /\ flashCleanup' = fl.cleanup

\* { ...m, ...changed }
Spread(m, changed) ==
    [k \in (DOMAIN m) \cup (DOMAIN changed) |-> IF k \in DOMAIN changed THEN changed[k] ELSE m[k]]

\* The symbols the loop of the effect puts into `changed`.
Changed(prev, pr) ==
    LET keys == {s \in DOMAIN pr : s \in DOMAIN prev /\ pr[s] # prev[s]}
    IN  [s \in keys |-> IF pr[s] > prev[s] THEN "up" ELSE "down"]

\* The effect on [prices] runs for the snapshot pr: first the cleanup the
\* previous run returned, then the body.
FlashEffect(fl, pr) ==
    LET s1 == IF fl.cleanup # <<>>
              THEN [fl EXCEPT !.timers = @ \ {fl.cleanup[1]}, !.cleanup = <<>>]
              ELSE fl
        changed == Changed(s1.prev, pr)
        timer   == [keys |-> DOMAIN changed]
    IN  IF DOMAIN changed # {}
        THEN [s1 EXCEPT !.flashMap = Spread(@, changed),
                        !.timers = @ \cup {timer},
                        !.cleanup = <<timer>>]
        ELSE [s1 EXCEPT !.prev = pr]

\* The 220 ms timeout: the flags of the keys of `changed` become "".
FlashTimeout(fl, timer) ==
    [fl EXCEPT !.timers = @ \ {timer},
               !.flashMap = [k \in (DOMAIN @) \cup timer.keys |->
                                IF k \in timer.keys THEN "" ELSE @[k]]]

\* The flush interval ticks while a PortfolioTable is mounted: a publishing
\* flush gives `prices` a new identity, the table renders and its effect runs.
TableFlush(t) ==
    /\ Idle
    /\ attached > 0
    /\ t.kind = "flush"
    /\ LET st == FlushCallback(Store)
       IN  /\ Becomes(st)
           /\ IF st.flushed # <<>>
              THEN FlashBecomes(FlashEffect(Flash, st.prices))
              ELSE UNCHANGED flashVars
    /\ UNCHANGED <<USE_MOCK, valuationVars, fetchVars, favoriteVars, dispatching, attached,
                   historyVars, trackerVars>>

FlashTimerFires(timer) ==
    /\ FlashBecomes(FlashTimeout(Flash, timer))
    /\ UNCHANGED <<USE_MOCK, valuationVars, fetchVars, favoriteVars, storeVars, via,
                   dispatching, attached, historyVars, trackerVars>>

FlashTimeouts == \E timer \in flashTimers : FlashTimerFires(timer)

\* A mounted table fed by the synthetic source; an armed timeout fires unless
\* it is cleared.
NextFlash ==
    \/ Attach
    \/ \E t \in timers, sym \in Symbols, p \in PriceVals : MockTimerFires(t, sym, p)
    \/ \E t \in timers : TableFlush(t)
    \/ FlashTimeouts

SpecFlash == InitTicks /\ [][NextFlash]_vars /\ WF_vars(FlashTimeouts)

\* ------------------------------------------------------- claim vocabulary
ReconnectTimers == {t \in timers : t.kind = "reconnect"}

ExpectedDelay(i) == Min(BACKOFF_CAP, BACKOFF_FLOOR * Pow2(i - 1))

\* disconnect() ran and connect() has not run since.
Stopped == closedExplicitly /\ ~initialized

NotFullyClosed == {s \in SocketIds : sockets[s] \in {"CONNECTING", "OPEN", "CLOSING"}}

\* Some socket object came into being in this step.
SocketCreated == \E s \in SocketIds : sockets[s] # "CONNECTING" /\ sockets'[s] = "CONNECTING"

\* The close handler of the owned socket ran in this step.
OwnedCloseRan ==
    /\ ws # 0
    /\ dispatching' = 0
    /\ \/ dispatching = ws
       \/ dispatching = 0 /\ sockets[ws] \in {"OPEN", "CONNECTING"} /\ sockets'[ws] = "CLOSED"

\* ------------------------------------------------------------------ claims
\* C1: in network mode the delay of the reconnect timer scheduled after i - 1
\* reconnection attempts since the last open (or since the start) is
\* min(32000, 1000 * 2^(i-1)), and the backoff field holds that value.
C1_BackoffSequence ==
    ~USE_MOCK =>
        /\ backoff = ExpectedDelay(attempts + 1)
        /\ \A t \in ReconnectTimers : t.delay = ExpectedDelay(attempts + 1)

C1_Witness ==
    /\ attempts = MaxAttempts
    /\ \E t \in ReconnectTimers : t.delay = BACKOFF_CAP

\* C2: after a successful open, until the next reconnect timer fires, the
\* backoff is the floor and a reconnection is scheduled with 1000 ms, however
\* many attempts preceded the open.
C2_OpenResetsBackoff ==
    openAfter >= 0 =>
        /\ backoff = BACKOFF_FLOOR
        /\ \A t \in ReconnectTimers : t.delay = BACKOFF_FLOOR

C2_Witness ==
    /\ openAfter >= 2
    /\ \E t \in ReconnectTimers : t.delay = BACKOFF_FLOOR

\* C3: a step that ends stopped (disconnect() itself, or any event delivered
\* between disconnect() and the next connect()) leaves no reconnect timer
\* pending and creates no socket.
C3_StopNeverReconnects ==
    [][Stopped' => (ReconnectTimers' = {} /\ ~SocketCreated)]_vars

C3_Witness ==
    /\ Stopped
    /\ dispatching # 0
    /\ ReconnectTimers = {}

\* C4 (as claimed): between disconnect() and the next connect() the status
\* is `disconnected` in every state.
C4_StoppedIsDisconnected == Stopped => status = "disconnected"

\* C5 (as claimed): in network mode, in a session started by connect() the
\* shutdown flag is not set, and a close of the owned socket moves the status
\* to `reconnecting` and schedules a reconnection.
C5_RestartResetsShutdownFlag ==
    [][~USE_MOCK =>
          /\ initialized => ~closedExplicitly
          /\ (initialized /\ OwnedCloseRan) =>
                 (status' = "reconnecting" /\ ReconnectTimers' # {})]_vars

\* C6 (as claimed): in network mode, while the store is initialized it has
\* not given up: its socket is connecting or open, or a close event is about
\* to run, or a reconnect timer is pending.
C6_NeverGivesUp ==
    (initialized /\ ~USE_MOCK) =>
        \/ ws # 0 /\ sockets[ws] \in {"CONNECTING", "OPEN"}
        \/ dispatching # 0
        \/ ReconnectTimers # {}

\* C7: connect() on an initialized store changes nothing of the store: no
\* timer, no socket, and status, prices, buffer and backoff as before.
C7_ConnectIdempotent ==
    [][(initialized /\ attached' = attached + 1) => UNCHANGED storeVars]_vars

C7_Witness == initialized /\ ~closedExplicitly /\ attached = 2 /\ timers # {}

\* C8 (as claimed): at most one socket created by the store is not fully
\* closed.
C8_SingleSourceInstance == Cardinality(NotFullyClosed) <= 1

\* C9 (as claimed): at most one WebSocket of the application, the store's or
\* LiveTracker's, is connecting or open.
C9_SingleWebSocket ==
    Cardinality({s \in SocketIds : sockets[s] \in {"CONNECTING", "OPEN"}})
        + (IF ltMounted /\ wsRef \in {"CONNECTING", "OPEN"} THEN 1 ELSE 0) <= 1

\* C10: a detach tears the shared connection down whoever else is attached:
\* status `disconnected`, no timer pending, handle released, no socket
\* connecting or open; and a torn-down store stays so until an attach.
C10_DetachTearsDown ==
    [][/\ (attached' = attached - 1) =>
            /\ status' = "disconnected"
            /\ ~initialized'
            /\ timers' = {}
            /\ ws' = 0
            /\ \A s \in SocketIds : sockets'[s] \notin {"CONNECTING", "OPEN"}
       /\ (~initialized /\ attached' <= attached) =>
            /\ ~initialized'
            /\ timers' = {}
            /\ \A s \in SocketIds : sockets'[s] \notin {"CONNECTING", "OPEN"}]_vars

C10_Witness ==
    /\ attached >= 1
    /\ Stopped
    /\ status = "disconnected"
    /\ timers = {}

\* C11: a step that ends stopped leaves no timer of the store pending, the
\* three timer handles and the socket handle null; and from a stopped state
\* to a stopped state nothing a timer callback writes (buffer, prices,
\* backoff) changes.
C11_StopCancelsTimers ==
    [][/\ Stopped' =>
            /\ timers' = {}
            /\ reconnectTimer' = 0 /\ flushTimer' = 0 /\ mockTimer' = 0
            /\ ws' = 0
       /\ (Stopped /\ Stopped') =>
            UNCHANGED <<buffer, prices, backoff>>]_vars

C11_Witness ==
    /\ Stopped
    /\ buffer # <<>>
    /\ backoff > BACKOFF_FLOOR
    /\ timers = {}
    /\ ws = 0

\* Symbols occurring in a batch, and the position of a symbol's last tick.
BatchSymbols(batch) == {batch[i].symbol : i \in DOMAIN batch}

LastTick(batch, sym) ==
    CHOOSE i \in DOMAIN batch :
        /\ batch[i].symbol = sym
        /\ \A j \in DOMAIN batch : batch[j].symbol = sym => j <= i

\* C12: after a flush published a batch, every symbol occurring in the batch
\* (once or several times) has exactly one published value, the price of the
\* last tick enqueued for it.
C12_LastWriteWins ==
    \A k \in DOMAIN flushed :
        \A sym \in BatchSymbols(flushed[k]) :
            /\ sym \in DOMAIN prices
            /\ prices[sym] = flushed[k][LastTick(flushed[k], sym)].price

C12_Witness ==
    /\ flushed # <<>>
    /\ \E i, j \in DOMAIN flushed[1] :
          /\ i < j
          /\ flushed[1][i].symbol = flushed[1][j].symbol
          /\ flushed[1][i].price # flushed[1][j].price
          /\ prices[flushed[1][j].symbol] = flushed[1][j].price

\* The store's state and _internals without the history of flushes.
storeFields == <<prices, status, ws, buffer, backoff, reconnectTimer, flushTimer,
                 mockTimer, closedExplicitly, initialized, sockets, failing, timers>>

\* C13: a flush tick that finds the buffer empty publishes nothing and
\* leaves prices, status and every internal field as they were.
C13_EmptyFlushIsNoop ==
    [][buffer = <<>> =>
          /\ flushed' \in {flushed, <<>>}
          /\ flushed' # flushed => UNCHANGED storeFields]_vars

C13_Witness ==
    /\ initialized
    /\ buffer = <<>>
    /\ flushed = <<>>
    /\ prices # <<>>

\* A flush published in this step: ticks left the buffer, or the snapshot
\* changed, or a new batch was recorded.
FlushPublished ==
    \/ Len(buffer') < Len(buffer)
    \/ prices' # prices
    \/ flushed' # flushed /\ flushed' # <<>>

\* C14: a flush that publishes takes the whole buffer as its one batch and
\* leaves the buffer empty, so no tick of it can be part of a later batch.
C14_FlushDrainsAll ==
    [][FlushPublished =>
          /\ buffer # <<>>
          /\ buffer' = <<>>
          /\ flushed' = <<buffer>>]_vars

C14_Witness ==
    /\ buffer = <<>>
    /\ flushed # <<>>
    /\ Len(flushed[1]) >= 2
    /\ Cardinality(BatchSymbols(flushed[1])) >= 2

\* Ticks of the well-formed frames of the feed.
FeedTicks == {PriceMsg(d.symbol, d.price) : d \in FeedMessages \ Malformed}

\* C15: in network mode a message event that enqueues appends exactly one
\* tick of a well-formed frame and changes nothing else; a frame that does
\* not parse, has no symbol or has a non-numeric price is dropped, and a
\* drop leaves buffer, prices, status, backoff, the reconnect timer and every
\* other field unchanged.
C15_MalformedDropped ==
    [][~USE_MOCK =>
          /\ (buffer' # buffer /\ buffer' # <<>>) =>
                /\ \E tick \in FeedTicks : buffer' = Append(buffer, tick)
                /\ ~dropped'
                /\ UNCHANGED <<prices, status, ws, backoff, reconnectTimer, flushTimer,
                               mockTimer, closedExplicitly, initialized, sockets,
                               failing, timers>>
          /\ (dropped' /\ ~dropped) => UNCHANGED storeFields
          /\ (\E s \in SocketIds : sockets[s] = "OPEN") =>
                \A data \in Malformed : OnMessage(Store, data) = [Store EXCEPT !.dropped = TRUE]
      ]_vars

C15_Witness ==
    /\ ~USE_MOCK
    /\ dropped
    /\ buffer # <<>>
    /\ \E s \in SocketIds : sockets[s] = "OPEN"

\* C16: with the synthetic source the status is `connected` in every state
\* from connect() to the next disconnect(), and no socket and no reconnect
\* timer ever exists.
C16_MockAlwaysConnected ==
    USE_MOCK =>
        /\ initialized => status = "connected"
        /\ ws = 0
        /\ \A s \in SocketIds : sockets[s] = "NONE"
        /\ ReconnectTimers = {}
        /\ reconnectTimer = 0

C16_Witness ==
    /\ USE_MOCK
    /\ initialized
    /\ closedExplicitly
    /\ status = "connected"
    /\ prices # <<>>
    /\ \E t \in timers : t.kind = "mock"

\* The status changes the state machine defines.
StatusTransitions ==
    {<<"disconnected", "connecting">>, <<"connecting", "connected">>,
     <<"connecting", "reconnecting">>, <<"connected", "reconnecting">>,
     <<"reconnecting", "connecting">>, <<"connecting", "disconnected">>,
     <<"connected", "disconnected">>, <<"reconnecting", "disconnected">>}

StatusChangeOk(from, to) == from = to \/ <<from, to>> \in StatusTransitions

\* C17 (as claimed): in network mode every change of the status, the one a
\* handler makes on its way included, is one of the defined transitions.
C17_StatusTransitions ==
    [][~USE_MOCK =>
          IF via' # ""
          THEN StatusChangeOk(status, via') /\ StatusChangeOk(via', status')
          ELSE StatusChangeOk(status, status')]_vars

\* C18 (as claimed): the error event of LiveTracker's socket sets no error
\* message for the user interface.
C18_NoErrorSurfaced ==
    [][(~ltDispatching /\ ltDispatching') => lastError' = ""]_vars

\* The flush interval ticked in this step.
FlushStep == Len(buffer') < Len(buffer) \/ flushed' # flushed

\* What the connection supervisor owns.
connectionVars == <<status, ws, backoff, reconnectTimer, flushTimer, mockTimer,
                    closedExplicitly, initialized, sockets, failing, timers,
                    dispatching, attached>>

\* C19: a step that changes the price snapshot is a flush tick, so connect,
\* disconnect, open, error, close, message and reconnect-timer events leave
\* prices unchanged; and a flush tick leaves the status, and everything else
\* the connection supervisor owns, unchanged.
C19_PricesOnlyByFlush ==
    [][/\ prices' # prices => FlushStep
       /\ FlushStep => UNCHANGED connectionVars]_vars

C19_Witness ==
    /\ ~USE_MOCK
    /\ prices # <<>>
    /\ flushed # <<>>
    /\ status = "reconnecting"
    /\ ReconnectTimers # {}

\* The four optional fields of a calculated item are all undefined.
AllAbsent(r) ==
    /\ r.currentPrice = Undefined
    /\ r.totalValue = Undefined
    /\ r.dailyPnl = Undefined
    /\ r.dailyPnlPercent = Undefined

\* C20: in the result of calculatePortfolioMetrics the optional fields of an
\* item are all absent exactly when its symbol is not a key of the price map,
\* and no item has a totalValue without a currentPrice.
C20_AbsentTogether ==
    \A k \in DOMAIN metrics :
        /\ DOMAIN metrics[k] = DOMAIN portfolio
        /\ \A i \in DOMAIN portfolio :
              /\ AllAbsent(metrics[k][i]) <=> portfolio[i].symbol \notin DOMAIN priceMap
              /\ metrics[k][i].totalValue # Undefined =>
                     metrics[k][i].currentPrice # Undefined

C20_Witness ==
    /\ metrics # <<>>
    /\ \E i, j \in DOMAIN portfolio :
          /\ AllAbsent(metrics[1][i])
          /\ metrics[1][j].currentPrice # Undefined
          /\ metrics[1][j].totalValue # Undefined
          /\ metrics[1][j].dailyPnlPercent = Undefined

\* The calculated items: the result of calculatePortfolioMetrics once it ran.
Calculated == {<<portfolio[i], metrics[k][i]>> : k \in DOMAIN metrics, i \in DOMAIN portfolio}

\* C21: dailyPnlPercent is absent when avgCost is 0 (whatever the price)
\* and when the price is absent; otherwise it is the fraction
\* ((price - avgCost) / avgCost) * 100, and its denominator is never 0.
C21_PercentGuardsZeroCost ==
    \A c \in Calculated :
        LET h == c[1]
            r == c[2]
            p == PriceOf(priceMap, h.symbol)
        IN  IF h.avgCost = 0 \/ p = Undefined
            THEN r.dailyPnlPercent = Undefined
            ELSE /\ r.dailyPnlPercent # Undefined
                 /\ r.dailyPnlPercent[1].den > 0
                 /\ r.dailyPnlPercent[1].num * h.avgCost
                       = (p[1] - h.avgCost) * 100 * r.dailyPnlPercent[1].den

C21_Witness ==
    /\ \E c \in Calculated :
          c[1].avgCost = 0 /\ c[2].currentPrice = <<175>> /\ c[2].dailyPnlPercent = Undefined
    /\ \E c \in Calculated :
          c[1].avgCost = 150 /\ c[2].dailyPnlPercent = <<[num |-> 50, den |-> 3]>>

\* C22: totalValue is quantity * price when the price is present (0 for a
\* quantity of 0) and absent when the price is absent.
C22_TotalValue ==
    \A c \in Calculated :
        LET p == PriceOf(priceMap, c[1].symbol)
        IN  IF p = Undefined
            THEN c[2].totalValue = Undefined
            ELSE /\ c[2].totalValue = <<c[1].quantity * p[1]>>
                 /\ c[1].quantity = 0 => c[2].totalValue = <<0>>

C22_Witness ==
    /\ \E c \in Calculated : c[1].quantity = 0 /\ c[2].totalValue = <<0>>
    /\ \E c \in Calculated : c[1].quantity = 10 /\ c[2].totalValue = <<1750>>

\* C23: dailyPnl is quantity * (price - avgCost) when the price is present:
\* positive above the average cost and negative below it for a positive
\* quantity, 0 at the average cost; it is absent when the price is absent.
C23_DailyPnl ==
    \A c \in Calculated :
        LET h == c[1]
            p == PriceOf(priceMap, h.symbol)
        IN  IF p = Undefined
            THEN c[2].dailyPnl = Undefined
            ELSE /\ c[2].dailyPnl = <<h.quantity * (p[1] - h.avgCost)>>
                 /\ (h.quantity > 0 /\ p[1] > h.avgCost) => c[2].dailyPnl[1] > 0
                 /\ (h.quantity > 0 /\ p[1] < h.avgCost) => c[2].dailyPnl[1] < 0
                 /\ p[1] = h.avgCost => c[2].dailyPnl[1] = 0

C23_Witness ==
    /\ \E c \in Calculated : c[2].dailyPnl = <<-500>>
    /\ \E c \in Calculated : c[1].quantity = 10 /\ c[1].avgCost = 100 /\ c[2].dailyPnl = <<0>>

\* C24: each derived field of a calculated item is what the individual
\* function returns for the item's quantity, average cost and price, and
\* symbol, quantity and avgCost are those of the item.
C24_ComposedConsistent ==
    \A c \in Calculated :
        LET h == c[1]
            r == c[2]
            p == PriceOf(priceMap, h.symbol)
        IN  /\ r.currentPrice = p
            /\ r.totalValue = calculateTotalValue(h.quantity, p)
            /\ r.dailyPnl = calculateDailyPnl(h.quantity, h.avgCost, p)
            /\ r.dailyPnlPercent = calculateDailyPnlPercent(h.avgCost, p)
            /\ r.symbol = h.symbol
            /\ r.quantity = h.quantity
            /\ r.avgCost = h.avgCost

C24_Witness ==
    \E c \in Calculated :
        /\ c[1] = [symbol |-> "GOOGL", quantity |-> 10, avgCost |-> 150]
        /\ c[2].currentPrice = <<100>>
        /\ c[2].totalValue = <<1000>>
        /\ c[2].dailyPnl = <<-500>>
        /\ c[2].dailyPnlPercent = <<[num |-> -100, den |-> 3]>>

\* C25: the result of calculatePortfolioMetrics has the length of the
\* portfolio, its i-th element is calculatePortfolioItemMetrics of the i-th
\* item and that item's price, an empty portfolio gives an empty result, and
\* an item without a price has absent fields.
C25_PortfolioMetricsInOrder ==
    \A k \in DOMAIN metrics :
        /\ Len(metrics[k]) = Len(portfolio)
        /\ portfolio = <<>> => metrics[k] = <<>>
        /\ \A i \in 1..Len(portfolio) :
              /\ metrics[k][i] = calculatePortfolioItemMetrics(
                                     portfolio[i], PriceOf(priceMap, portfolio[i].symbol))
              /\ metrics[k][i].symbol = portfolio[i].symbol
              /\ portfolio[i].symbol \notin DOMAIN priceMap =>
                     metrics[k][i].totalValue = Undefined

C25_Witness ==
    /\ metrics # <<>>
    /\ Len(metrics[1]) = 2
    /\ metrics[1][1].symbol = "GOOGL" /\ metrics[1][1].currentPrice = Undefined
    /\ metrics[1][2].symbol = "AAPL" /\ metrics[1][2].currentPrice = <<175>>

\* Positions of the portfolio whose symbol is a key of the price map.
Priced == {i \in DOMAIN portfolio : portfolio[i].symbol \in DOMAIN priceMap}

RECURSIVE SumValue(_)
SumValue(I) ==
    IF I = {} THEN 0
    ELSE LET i == CHOOSE x \in I : TRUE
         IN  portfolio[i].quantity * priceMap[portfolio[i].symbol] + SumValue(I \ {i})

RECURSIVE SumPnl(_)
SumPnl(I) ==
    IF I = {} THEN 0
    ELSE LET i == CHOOSE x \in I : TRUE
         IN  portfolio[i].quantity * (priceMap[portfolio[i].symbol] - portfolio[i].avgCost)
                 + SumPnl(I \ {i})

\* C26: calculateTotalPortfolioValue is the sum of quantity * price over
\* exactly the items that have a price, and it is the number 0 for an empty
\* portfolio and for an empty price map.
C26_TotalPortfolioValue ==
    \A k \in DOMAIN totalValue :
        /\ totalValue[k] \in Int
        /\ totalValue[k] = SumValue(Priced)
        /\ (portfolio = <<>> \/ priceMap = <<>>) => totalValue[k] = 0

C26_Witness ==
    /\ totalValue = <<1750>>
    /\ Len(portfolio) = 2
    /\ Cardinality(Priced) = 1
    /\ portfolio[1].symbol \notin DOMAIN priceMap
    /\ portfolio[1].quantity = 10

\* C27: calculateTotalPortfolioPnl is the sum of quantity * (price - avgCost)
\* over exactly the items that have a price, hence the sum of the dailyPnl
\* fields present in the result of calculatePortfolioMetrics, and it is 0 for
\* an empty portfolio and for an empty price map.
RECURSIVE SumPresentPnl(_, _)
SumPresentPnl(calc, I) ==
    IF I = {} THEN 0
    ELSE LET i == CHOOSE x \in I : TRUE
         IN  (IF calc[i].dailyPnl = Undefined THEN 0 ELSE calc[i].dailyPnl[1])
                 + SumPresentPnl(calc, I \ {i})

C27_TotalPortfolioPnl ==
    \A k \in DOMAIN totalPnl :
        /\ totalPnl[k] \in Int
        /\ totalPnl[k] = SumPnl(Priced)
        /\ (portfolio = <<>> \/ priceMap = <<>>) => totalPnl[k] = 0
        /\ \A m \in DOMAIN metrics :
              totalPnl[k] = SumPresentPnl(metrics[m], DOMAIN metrics[m])

C27_Witness ==
    /\ totalPnl = <<-500>>
    /\ metrics # <<>>
    /\ Len(portfolio) = 2
    /\ Cardinality(Priced) = 1
    /\ portfolio[1].symbol \notin DOMAIN priceMap
    /\ portfolio[1].quantity = 10

\* C28 (as claimed): the rows PortfolioTable derives are the result of
\* calculatePortfolioMetrics for the same portfolio and price snapshot.
C28_TableRowsAreMetrics ==
    \A k \in DOMAIN rows : rows[k] = calculatePortfolioMetrics(portfolio, priceMap)

\* C29: a failed holdings fetch is retried exactly once after the fixed delay.
\* One invocation issues at most two requests; the first failure arms one
\* timeout of RETRY_DELAY and nothing else; when the retry has settled
\* isLoading is false, a success has set the portfolio and left error null, a
\* failure has put its message in error; and while isLoading is false no
\* request is in flight and no retry is armed, so that only a new
\* fetchPortfolio() issues the next request.  The second request is issued by
\* the firing of that timeout and by nothing else.
RetryDiscipline ==
    /\ requests <= 2
    /\ Cardinality(retryTimers) <= 1
    /\ \A t \in retryTimers : t.delay = RETRY_DELAY
    /\ retryTimers # {} => (requests = 1 /\ pendingRequest = 0)
    /\ (requests = 1 /\ pendingRequest = 0 /\ lastOutcome = "failed") => retryTimers # {}
    /\ (requests = 2 /\ pendingRequest = 0) =>
          /\ ~isLoading
          /\ lastOutcome = "ok" => (storedPortfolio # <<>> /\ error = "")
          /\ lastOutcome = "failed" => error \in FetchErrors
    /\ ~isLoading => (pendingRequest = 0 /\ retryTimers = {})

C29_RetriedOnce ==
    [][/\ RetryDiscipline'
       /\ requests' > requests =>
             \/ (~isLoading /\ requests' = 1 /\ fetches' = fetches + 1)
             \/ (\E t \in retryTimers : t.delay = RETRY_DELAY /\ retryTimers' = retryTimers \ {t})]_vars

C29_Witness ==
    /\ fetches > 1
    /\ requests = 2
    /\ pendingRequest = 0
    /\ lastOutcome = "failed"
    /\ error = "HTTP 500"
    /\ ~isLoading

\* The stored item is a list of symbols, the format saveFavorites writes.
FavoritesList(st) == st.kind = "json-array"

\* LiveTracker mounted in this step: loadFavorites ran.
FavoritesLoaded == ~ltMounted /\ ltMounted'

\* toggleFavorite ran in this step.
Toggled == ltMounted /\ ltMounted' /\ favorites' # favorites

\* Favorites loaded from a missing item, or from an item that is not a list of
\* symbols, are the empty set.
CorruptLoadsEmpty == (FavoritesLoaded /\ ~FavoritesList(storage)) => favorites' = <<>>

\* A toggle rewrites the stored item so that loading it yields the in-memory
\* set, and toggling the symbol of the previous toggle restores the set held
\* before that toggle.
TogglePersists ==
    Toggled =>
       /\ Range(loadFavorites(getItem(storage'))) = Range(favorites')
       /\ (lastToggle # <<>> /\ lastToggle'[1].symbol = lastToggle[1].symbol)
             => Range(favorites') = lastToggle[1].before

\* C30: persisted favorites.  Loading from missing or corrupt stored data
\* yields the empty set; after any toggle the stored list, when loaded, equals
\* the in-memory set; toggling the same symbol twice restores the previous set.
C30_PersistedFavorites == [][CorruptLoadsEmpty /\ TogglePersists]_vars

\* An event handler of socket s ran in this step: its error handler, or its
\* close handler (after its error handler or after a clean closing handshake).
EventRan(s) ==
    \/ dispatching = 0 /\ dispatching' = s
    \/ dispatching = s /\ dispatching' = 0
    \/ /\ dispatching = 0 /\ dispatching' = 0
       /\ sockets[s] \in {"OPEN", "CLOSING"}
       /\ sockets'[s] \in {"CLOSED", "NONE"}

\* The store owns a socket that is connecting or open.
SessionLive == ws # 0 /\ sockets[ws] \in {"CONNECTING", "OPEN"}

\* A late event of a socket the store no longer owns schedules no reconnect.
StaleEventSchedulesNothing ==
    \A s \in SocketIds :
        (SessionLive /\ s # ws /\ EventRan(s)) => ReconnectTimers' = ReconnectTimers

\* C31 (as claimed): while the store owns a connecting or open socket, an
\* error or close event of a socket it no longer owns leaves the status as it
\* is and schedules no reconnect.
C31_StaleEventsIgnored ==
    [][\A s \in SocketIds :
          (SessionLive /\ s # ws /\ EventRan(s)) =>
              /\ status' = status
              /\ ReconnectTimers' = ReconnectTimers]_vars

\* Ticks of the frames of the live feed.
LiveTicks == {PriceMsg(d.symbol, d.price) : d \in LiveFrames}

\* The tick is waiting in the buffer.
Buffered(tick) == \E i \in DOMAIN buffer : buffer[i] = tick

\* The latest flush drained the tick, and the published price of its symbol
\* is the price of the last tick of that symbol in the drained batch.
Drained(tick) ==
    /\ buffer = <<>>
    /\ flushed # <<>>
    /\ \E i \in DOMAIN flushed[1] : flushed[1][i] = tick
    /\ tick.symbol \in DOMAIN prices
    /\ prices[tick.symbol] = flushed[1][LastTick(flushed[1], tick.symbol)].price

\* C32: while the engine is running every tick in the buffer is eventually
\* drained by a flush that publishes for its symbol the tick's price or the
\* price of a later tick of the same symbol, unless disconnect() intervenes.
C32_TicksEventuallyPublished ==
    \A tick \in LiveTicks :
        (initialized /\ Buffered(tick)) ~> (~initialized \/ Drained(tick))

C32_Witness ==
    /\ initialized
    /\ \E tick \in LiveTicks :
          /\ Drained(tick)
          /\ prices[tick.symbol] # tick.price

\* A request of the fetch is awaited, or its retry is armed.
ChainInFlight == pendingRequest # 0 \/ retryTimers # {}

\* C33: the holdings fetch is guarded against duplicates.  isLoading is true
\* as long as a request is awaited or the retry is armed; while it is true no
\* fetchPortfolio() call is accepted and the only request issued is the retry
\* by its timeout; an invocation is accepted only when nothing is in flight.
C33_FetchGuarded ==
    [][/\ ChainInFlight' => isLoading'
       /\ isLoading =>
             /\ fetches' = fetches
             /\ requests' # requests =>
                   (retryTimers # {} /\ retryTimers' = {} /\ requests' = requests + 1)
       /\ fetches' # fetches => ~ChainInFlight]_vars

C33_Witness ==
    /\ isLoading
    /\ retryTimers # {}
    /\ pendingRequest = 0
    /\ fetches > 1
    /\ storedPortfolio # <<>>

\* C34: every accepted fetchPortfolio invocation terminates.  isLoading true
\* leads to isLoading false; while isLoading is true error is null; from the
\* accepted call to the step that ends the fetch the portfolio is as it was;
\* and that step leaves error null and the portfolio holding fetched data, or
\* error non-null and the portfolio as it was.
C34_FetchTerminates ==
    /\ isLoading ~> ~isLoading
    /\ [](isLoading => error = "")
    /\ [][/\ isLoading' => storedPortfolio' = storedPortfolio
          /\ (isLoading /\ ~isLoading') =>
                \/ error' = "" /\ storedPortfolio' \in {<<d>> : d \in FetchedData}
                \/ error' \in FetchErrors /\ storedPortfolio' = storedPortfolio]_vars

C34_Witness ==
    /\ ~isLoading
    /\ fetches > 1
    /\ error \in FetchErrors
    /\ storedPortfolio # <<>>

\* The sequence a starts the sequence b.
IsPrefix(a, b) == Len(a) <= Len(b) /\ SubSeq(b, 1, Len(a)) = a

\* C35: disconnect() discards nothing.  The step of a detach leaves prices
\* and the buffer as they were; no step taken while the store is not
\* initialized changes either; outside a publishing flush the buffer only
\* grows at its end, and a publishing flush takes the whole buffer and writes
\* the last price of each of its symbols: so the ticks queued at a stop are
\* still queued at the next connect() and are published by the first flush
\* after it.
C35_StopDiscardsNothing ==
    [][/\ (attached' = attached - 1) => UNCHANGED <<prices, buffer>>
       /\ ~initialized => UNCHANGED <<prices, buffer>>
       /\ ~FlushPublished => IsPrefix(buffer, buffer')
       /\ FlushPublished =>
             /\ flushed' = <<buffer>>
             /\ \A sym \in BatchSymbols(buffer) :
                   /\ sym \in DOMAIN prices'
                   /\ prices'[sym] = buffer[LastTick(buffer, sym)].price]_vars

C35_Witness ==
    /\ Stopped
    /\ status = "disconnected"
    /\ attached = 1
    /\ buffer # <<>>
    /\ prices # <<>>

\* C36: a flush merges rather than replaces.  In every step each symbol of
\* prices stays in prices, and keeps its price unless the step is a
\* publishing flush whose batch holds the symbol.
C36_FlushMerges ==
    [][/\ DOMAIN prices \subseteq DOMAIN prices'
       /\ \A sym \in DOMAIN prices :
             (FlushPublished /\ sym \in BatchSymbols(buffer)) \/ prices'[sym] = prices[sym]]_vars

C36_Witness ==
    /\ closedExplicitly
    /\ initialized
    /\ flushed # <<>>
    /\ BatchSymbols(flushed[1]) = {"AAPL"}
    /\ DOMAIN prices = Symbols
    /\ prices["GOOGL"] # prices["AAPL"]

BackoffValues == {BACKOFF_FLOOR * Pow2(i) : i \in 0..5}

\* The handshake of a socket succeeded in this step.
OpenRan == \E s \in SocketIds : sockets[s] = "CONNECTING" /\ sockets'[s] = "OPEN"

\* The pending reconnect timer elapsed in this step: it is gone, no close
\* handler ran and no consumer came or went.
ReconnectFired ==
    /\ \E t \in ReconnectTimers : t.id = reconnectTimer /\ t \notin timers'
    /\ dispatching = 0
    /\ sockets' \in {sockets} \cup
           {[sockets EXCEPT ![s] = "CONNECTING"] : s \in SocketIds}
    /\ attached' = attached

\* C37: the backoff is one of 1000, 2000, 4000, 8000, 16000, 32000 in every
\* state; a step changes it only by resetting it to 1000 when a socket opens
\* or by doubling it up to 32000 when the reconnect timer fires; connect()
\* and disconnect() leave it unchanged.
C37_BackoffValues ==
    /\ [](backoff \in BackoffValues)
    /\ [][/\ backoff' # backoff =>
                \/ OpenRan /\ backoff' = BACKOFF_FLOOR
                \/ ReconnectFired /\ backoff' = Min(BACKOFF_CAP, backoff * 2)
          /\ attached' # attached => backoff' = backoff]_vars

C37_Witness ==
    /\ Stopped
    /\ attached = 0
    /\ backoff = BACKOFF_CAP
    /\ openAfter = -1

\* C38: at most one reconnect timer is pending, in the store and in
\* LiveTracker; the pending one is the one the handle holds, so that the next
\* scheduling cancels it; and none is pending while the owned socket is
\* connecting or open, so that one failure leads to one new socket.
C38_SingleReconnectTimer ==
    /\ Cardinality(ReconnectTimers) <= 1
    /\ \A t \in ReconnectTimers : t.id = reconnectTimer
    /\ ReconnectTimers # {} => ~SessionLive
    /\ Cardinality(ltTimers) <= 1
    /\ \A t \in ltTimers : t.id = reconnectTimerRef
    /\ ltTimers # {} => wsRef \notin {"CONNECTING", "OPEN"}

C38_Witness ==
    /\ ReconnectTimers # {}
    /\ ltTimers # {}
    /\ reconnectTimer # 0
    /\ backoff > BACKOFF_FLOOR
    /\ backoffRef > BACKOFF_FLOOR

\* The flash direction the table holds for a symbol, "" for none.
Flag(sym) == IF sym \in DOMAIN flashMap THEN flashMap[sym] ELSE ""

\* A symbol of the new snapshot is flagged `up` if its price rose against the
\* preceding snapshot, `down` if it fell, and gets no flag otherwise.
FlashFollowsChange ==
    \A sym \in DOMAIN prices' :
        IF sym \in DOMAIN prices /\ prices'[sym] > prices[sym]
        THEN Flag(sym)' = "up"
        ELSE IF sym \in DOMAIN prices /\ prices'[sym] < prices[sym]
             THEN Flag(sym)' = "down"
             ELSE Flag(sym)' \in {Flag(sym), ""}

\* Every flag set is eventually cleared.
FlagsCleared == \A sym \in Symbols : (Flag(sym) # "") ~> (Flag(sym) = "")

\* C39 (as claimed): the flash direction of a symbol reflects its latest
\* price change against the immediately preceding snapshot, an unchanged
\* price sets no flag, and every flag set is eventually cleared.
C39_FlashFollowsLatestChange ==
    /\ [][FlushPublished => FlashFollowsChange]_vars
    /\ FlagsCleared

====
